---- MODULE Spec2Model ----
(***************************************************************************)
(* The acquisition engine of mesoSPIM-control (mesoSPIM_Core.py): the      *)
(* operating-mode state machine, the acquisition-list loops, the shutter   *)
(* and waveform-task handling and script execution.                        *)
(*                                                                         *)
(* The engine runs in one thread.  A request handler that enters an        *)
(* imaging mode does not return before the mode's loop has ended; the loop *)
(* calls QApplication.processEvents() once per iteration, and a request    *)
(* that arrives meanwhile is handled inside that call, on top of the       *)
(* running loop.  The model keeps the handlers that are running in         *)
(* `stack` (the innermost one last); a frame holds the function, the       *)
(* position in it and its local variables.                                 *)
(***************************************************************************)
EXTENDS Integers, Sequences, FiniteSets, TLC

(* ------------------------------ bounds -------------------------------- *)
\* longest acquisition list handed to the engine
MaxAcqs == 2
\* largest plane count of one acquisition (0 planes: z_start = z_end)
MaxPlanes == 2
\* iterations of a preview loop (live, visual) before the next one needs a stop
MaxCycles == 2
\* waveform task sets left open beyond which no further request is sent
MaxOpenTasks == 2
\* longest script handed to execute_script
MaxScriptLen == 2
\* stop requests taken inside processEvents() during one run of a mode
MaxRequests == 1
\* most keys of one request
MaxKeys == 2
\* how many handlers can be nested, one inside processEvents() of the other
MaxDepth == 2

VARIABLES
    state,                    \* self.state['state']
    stopflag,                 \* self.stopflag
    shutter_left,             \* self.shutter_left is open
    shutter_right,            \* self.shutter_right is open
    shutterstate,             \* self.state['shutterstate']
    shutterconfig,            \* self.state['shutterconfig']
    open_tasks,               \* waveformer task sets created and not closed
    image_count,              \* self.image_count
    acquisition_count,        \* self.acquisition_count
    total_acquisition_count,  \* self.total_acquisition_count
    total_image_count,        \* self.total_image_count
    etl_l_amplitude,          \* self.state['etl_l_amplitude']
    etl_r_amplitude,          \* self.state['etl_r_amplitude']
    moving,                   \* a move sent without wait_until_done may still be under way
    stack,                    \* the running handlers, innermost last
    log,                      \* signals and collaborator calls since the last request taken while idle
    progress,                 \* the sig_progress records since then
    run                       \* what that request was and how its handler ended

vars == <<state, stopflag, shutter_left, shutter_right, shutterstate, shutterconfig,
          open_tasks, image_count, acquisition_count, total_acquisition_count,
          total_image_count, etl_l_amplitude, etl_r_amplitude, moving,
          stack, log, progress, run>>

counters == <<image_count, acquisition_count, total_acquisition_count, total_image_count>>
shutters == <<shutter_left, shutter_right, shutterstate>>
etl == <<etl_l_amplitude, etl_r_amplitude>>

(* ------------------------------ inputs -------------------------------- *)
ImagingModes == {"live", "run_selected_acquisition", "run_acquisition_list",
                 "lightsheet_alignment_mode", "visual_mode"}
ShutterConfigs == {"Both", "Left", "Right", "Interleaved"}
\* values of an ETL amplitude parameter
EtlAmplitudes == {0, 1, 2}
\* the shutter entry of the acquisitions: a name open_shutters has no branch for
AcqShutters == {"Interleaved"}
Instructions == {"move", "raise"}
\* values of a 'state' request other than the five imaging modes: 'idle', the
\* name of a method that is not a mode, a misspelt mode
StopOrOtherStates == {"idle", "snap", "Live"}

\* utils.acquisitions.Acquisition: the fields the engine's control flow reads
Acquisitions == [planes : 0..MaxPlanes, shutter : AcqShutters]

\* utils.acquisitions.AcquisitionList: an ordered, non-empty sequence
AcquisitionLists == UNION {[1..n -> Acquisitions] : n \in 1..MaxAcqs}

Scripts == UNION {[1..n -> Instructions] : n \in 0..MaxScriptLen}

\* Acquisition.get_image_count()
get_image_count(acq) == acq.planes

\* AcquisitionList.get_image_count(): the sum over the members
RECURSIVE list_image_count(_)
list_image_count(acq_list) ==
    IF acq_list = <<>> THEN 0
    ELSE get_image_count(Head(acq_list)) + list_image_count(Tail(acq_list))

(* ------------------------------ helpers ------------------------------- *)
Top == stack[Len(stack)]
Pop == SubSeq(stack, 1, Len(stack) - 1)
Goto(pc) == [stack EXCEPT ![Len(stack)].pc = pc]
\* no handler is running and the record of the last one has been read
IsIdle == stack = <<>> /\ run.mode = "none"
AtYield == stack # <<>> /\ Top.pc = "yield"
At(fn, pc) == stack # <<>> /\ Top.fn = fn /\ Top.pc = pc

Frame(fn, pc) == [fn |-> fn, pc |-> pc, acq_list |-> <<>>, a |-> 0, i |-> 0, script |-> <<>>,
                  old_l_amp |-> 0, old_r_amp |-> 0]

\* the hardware and engine state an event is emitted in
HW(l, r, ss, t, st) ==
    [left |-> l, right |-> r, ss |-> ss, tasks |-> t, st |-> st, moving |-> moving]
Now == HW(shutter_left, shutter_right, shutterstate, open_tasks, state)

\* one signal emission or collaborator call: what, its argument, the acquisition
\* and plane it belongs to, and the state it happened in
Ev(e, v, hw) ==
    [e |-> e, v |-> v, val |-> 0,
     a |-> IF stack = <<>> THEN 0 ELSE Top.a,
     i |-> IF stack = <<>> THEN 0 ELSE Top.i,
     hw |-> hw]

\* sig_state_request.emit({key : value})
StateRequestEv(key, value, hw) == [Ev("sig_state_request", key, hw) EXCEPT !.val = value]

\* a request taken while idle starts a new record; one taken inside
\* processEvents() continues the record of the loop it interrupts
NewRun(mode) == [mode |-> mode, acq_list |-> <<>>, stopped |-> FALSE, stop_a |-> 0,
                 stop_k |-> 0, raised |-> FALSE, returned |-> FALSE, requests |-> 0,
                 last |-> mode, request |-> <<>>,
                 old_l |-> etl_l_amplitude, old_r |-> etl_r_amplitude]
RunBase(mode) ==
    IF IsIdle THEN NewRun(mode) ELSE [run EXCEPT !.requests = @ + 1, !.last = mode]

\* a request can be taken: the engine is idle, or a loop is inside processEvents()
CanTake == IsIdle \/ (AtYield /\ run.requests < MaxRequests)

(* ------------------------------ shutters ------------------------------ *)
\* open_shutters(): the shutter positions and shutterstate it leaves, called
\* with the shutters at positions l and r
open_shutters_never_closes(cfg, l, r) ==
    IF cfg = "Left" THEN [left |-> TRUE, right |-> r, ss |-> TRUE]
    ELSE IF cfg = "Right" THEN [left |-> l, right |-> TRUE, ss |-> TRUE]
    ELSE [left |-> TRUE, right |-> TRUE, ss |-> TRUE]

open_shutters(cfg, l, r) ==
    IF cfg = "Both" THEN [left |-> TRUE, right |-> TRUE, ss |-> TRUE]
    ELSE IF cfg = "Left" THEN [left |-> TRUE, right |-> FALSE, ss |-> TRUE]
    ELSE IF cfg = "Right" THEN [left |-> FALSE, right |-> TRUE, ss |-> TRUE]
    ELSE [left |-> TRUE, right |-> TRUE, ss |-> TRUE]

close_shutters_left_only(l, r) == [left |-> FALSE, right |-> r, ss |-> FALSE]

close_shutters_flag_only(l, r) == [left |-> l, right |-> r, ss |-> FALSE]

\* close_shutters(): the shutter positions and shutterstate it leaves
close_shutters(l, r) == [left |-> FALSE, right |-> FALSE, ss |-> FALSE]

\* the state of an event, with the shutters as open_shutters / close_shutters left them
WithShutters(hw, sh) == [hw EXCEPT !.left = sh.left, !.right = sh.right, !.ss = sh.ss]
Opened == open_shutters(shutterconfig, shutter_left, shutter_right)
Closed == close_shutters(shutter_left, shutter_right)

(* -------------------------- waveform tasks ---------------------------- *)
\* waveformer.create_tasks(): one more task set is open
create_tasks(t) == t + 1
\* waveformer.close_tasks(): the current task set is released
close_tasks(t) == IF t > 0 THEN t - 1 ELSE 0

\* snap_image(): create, write, start, run, stop, close
snap_image_events(hw) ==
    << Ev("create_tasks", "", [hw EXCEPT !.tasks = create_tasks(hw.tasks)]),
       Ev("write_waveforms_to_tasks", "", [hw EXCEPT !.tasks = create_tasks(hw.tasks)]),
       Ev("start_tasks", "", [hw EXCEPT !.tasks = create_tasks(hw.tasks)]),
       Ev("run_tasks", "", [hw EXCEPT !.tasks = create_tasks(hw.tasks)]),
       Ev("stop_tasks", "", [hw EXCEPT !.tasks = create_tasks(hw.tasks)]),
       Ev("close_tasks", "", [hw EXCEPT !.tasks = close_tasks(create_tasks(hw.tasks))]) >>

\* prepare_image_series(): create, write
prepare_image_series_events(hw) ==
    << Ev("create_tasks", "", [hw EXCEPT !.tasks = create_tasks(hw.tasks)]),
       Ev("write_waveforms_to_tasks", "", [hw EXCEPT !.tasks = create_tasks(hw.tasks)]) >>

\* snap_image_in_series(): start, run, stop
snap_image_in_series_events(hw) ==
    << Ev("start_tasks", "", hw), Ev("run_tasks", "", hw), Ev("stop_tasks", "", hw) >>

stopflag_kept == stopflag

\* the stop flag as the entry of a mode leaves it: self.stopflag = False
stopflag_on_entry == FALSE

loop_ignores_stopflag(flag) == TRUE

\* the poll of the stop flag at the head of a loop iteration:
\* "while self.stopflag is False" (live, visual_mode), and
\* "if self.stopflag is True: ... break" (run_acquisition)
loop_continues(flag) == flag = FALSE

(* ------------------------------- Init --------------------------------- *)
\* __init__: both shutters closed, state 'idle', stop flag clear
Init ==
    /\ state = "idle"
    /\ stopflag = FALSE
    /\ shutter_left = FALSE
    /\ shutter_right = FALSE
    /\ shutterstate = FALSE
    /\ shutterconfig \in ShutterConfigs
    /\ open_tasks = 0
    /\ image_count = 0
    /\ acquisition_count = 0
    /\ total_acquisition_count = 0
    /\ total_image_count = 0
    /\ etl_l_amplitude = 1
    /\ etl_r_amplitude = 2
    /\ moving = FALSE
    /\ stack = <<>>
    /\ log = <<>>
    /\ progress = <<>>
    /\ run = NewRun("none")

(* --------------------- requests (set_state, stop) --------------------- *)
\* the record of a handler that ends: finished when it was the outermost one
Ret(r) == IF Len(stack) = 1 THEN [r EXCEPT !.returned = TRUE] ELSE r

\* set_state(mode) for an imaging mode: store the state, tell the waveform
\* generator (alignment and visual mode announce 'live'), call the mode's function
SetStateMode(mode, announced, frame) ==
    /\ state' = mode
    /\ log' = Append(log, Ev("sig_state_request", announced,
                                 HW(shutter_left, shutter_right, shutterstate, open_tasks, mode)))
    /\ progress' = progress
    /\ run' = RunBase(mode)
    /\ stack' = Append(stack, frame)
    /\ UNCHANGED <<etl, moving, stopflag, shutters, shutterconfig, open_tasks, counters>>

\* {'state': 'live'}
RequestLive ==
    /\ IsIdle
    /\ open_tasks < MaxOpenTasks
    /\ SetStateMode("live", "live", Frame("live", "live"))

\* {'state': 'lightsheet_alignment_mode'}
RequestLightsheetAlignmentMode ==
    /\ IsIdle
    /\ open_tasks < MaxOpenTasks
    /\ SetStateMode("lightsheet_alignment_mode", "live",
                    Frame("lightsheet_alignment_mode", "lightsheet_alignment_mode"))

\* {'state': 'visual_mode'}
RequestVisualMode ==
    /\ IsIdle
    /\ open_tasks < MaxOpenTasks
    /\ SetStateMode("visual_mode", "live", Frame("visual_mode", "visual_mode"))

\* where the first stop request of a run found the loop: the acquisition and
\* the number of its planes captured so far
NoteStop(r) ==
    IF IsIdle \/ r.stopped THEN r
    ELSE [r EXCEPT !.stopped = TRUE, !.stop_a = Top.a, !.stop_k = Top.i + 1]

\* stop(): set the stop flag, store 'idle', emit sig_finished
stop_events(l, r, ss, t) ==
    << Ev("sig_state_request", "idle", HW(l, r, ss, t, state)),
       Ev("sig_update_gui_from_state", "False", HW(l, r, ss, t, "idle")),
       Ev("sig_finished", "stop", HW(l, r, ss, t, "idle")) >>

set_state_branch_else_idle(s) ==
    IF s \in ImagingModes THEN s ELSE "idle"

\* set_state(s): the branch of the if/elif chain that is taken, "none" when
\* no condition matches
set_state_branch(s) ==
    IF s = "live" THEN "live"
    ELSE IF s = "run_selected_acquisition" THEN "run_selected_acquisition"
    ELSE IF s = "run_acquisition_list" THEN "run_acquisition_list"
    ELSE IF s = "idle" THEN "idle"
    ELSE IF s = "lightsheet_alignment_mode" THEN "lightsheet_alignment_mode"
    ELSE IF s = "visual_mode" THEN "visual_mode"
    ELSE "none"

\* {'state': 'idle'}, taken while idle or inside processEvents(): set_state, stop()
RequestIdle ==
    /\ CanTake
    /\ \E s \in StopOrOtherStates :
          /\ set_state_branch(s) = "idle"
          /\ run' = NoteStop(RunBase(s))
    /\ stopflag' = TRUE
    /\ state' = "idle"
    /\ log' = log \o stop_events(shutter_left, shutter_right, shutterstate, open_tasks)
    /\ progress' = progress
    /\ UNCHANGED <<etl, moving, shutters, shutterconfig, open_tasks, counters, stack>>

\* set_state(s) when no branch is taken: nothing is done
SetStateNoBranch ==
    /\ \E s \in StopOrOtherStates :
          /\ set_state_branch(s) = "none"
          /\ run' = RunBase(s)
    /\ log' = log
    /\ progress' = progress
    /\ UNCHANGED <<etl, moving, state, stopflag, shutters, shutterconfig, open_tasks, counters, stack>>

\* {'state': <any other value>}: no branch of set_state is taken
RequestUnknownState ==
    /\ IsIdle
    /\ SetStateNoBranch

\* the same request, handled inside processEvents()
RequestUnknownStateInLoop ==
    /\ AtYield
    /\ run.requests < MaxRequests
    /\ SetStateNoBranch

set_shutterconfig_and_open(cfg, sh) ==
    [config |-> cfg,
     left |-> open_shutters(cfg, sh.left, sh.right).left,
     right |-> open_shutters(cfg, sh.left, sh.right).right,
     ss |-> open_shutters(cfg, sh.left, sh.right).ss]

\* set_shutterconfig(shutterconfig): self.state['shutterconfig'] = shutterconfig;
\* sh holds the configuration, the two shutter positions and shutterstate
set_shutterconfig(cfg, sh) == [sh EXCEPT !.config = cfg]

\* the configuration, the shutter positions and shutterstate as they are
ShutterSide == [config |-> shutterconfig, left |-> shutter_left, right |-> shutter_right,
                ss |-> shutterstate]

\* {'shutterconfig': cfg}: set_shutterconfig
RequestShutterconfig ==
    /\ IsIdle
    /\ \E cfg \in ShutterConfigs :
          /\ shutterconfig' = set_shutterconfig(cfg, ShutterSide).config
          /\ shutter_left' = set_shutterconfig(cfg, ShutterSide).left
          /\ shutter_right' = set_shutterconfig(cfg, ShutterSide).right
          /\ shutterstate' = set_shutterconfig(cfg, ShutterSide).ss
    /\ log' = log
    /\ progress' = progress
    /\ run' = RunBase("shutterconfig")
    /\ UNCHANGED <<etl, moving, state, stopflag, open_tasks, counters, stack>>

\* the same request, handled inside processEvents()
RequestShutterconfigInLoop ==
    /\ AtYield
    /\ run.requests < MaxRequests
    /\ \E cfg \in ShutterConfigs :
          /\ shutterconfig' = set_shutterconfig(cfg, ShutterSide).config
          /\ shutter_left' = set_shutterconfig(cfg, ShutterSide).left
          /\ shutter_right' = set_shutterconfig(cfg, ShutterSide).right
          /\ shutterstate' = set_shutterconfig(cfg, ShutterSide).ss
    /\ log' = log
    /\ progress' = progress
    /\ run' = RunBase("shutterconfig")
    /\ UNCHANGED <<etl, moving, state, stopflag, open_tasks, counters, stack>>

\* the motion worker has carried out the moves sent to it
MotionDone ==
    /\ moving
    /\ moving' = FALSE
    /\ UNCHANGED <<etl, state, stopflag, shutters, shutterconfig, open_tasks, counters,
                   stack, log, progress, run>>

\* the outermost handler has returned to the event loop, the signals it emitted
\* have been delivered and the stage is at rest: the record of the run is dropped
ClearRecord ==
    /\ stack = <<>>
    /\ run.mode # "none"
    /\ ~moving
    /\ log' = <<>>
    /\ progress' = <<>>
    /\ run' = NewRun("none")
    /\ UNCHANGED <<etl, moving, state, stopflag, shutters, shutterconfig, open_tasks, counters, stack>>

(* ----------------------- state_request_handler ------------------------ *)
\* the waveform generator handles a forwarded request by storing the value in
\* the shared state: the value of `key` after the requests of `events`, cur before
RECURSIVE amplitude_after(_, _, _)
amplitude_after(events, key, cur) ==
    IF events = <<>> THEN cur
    ELSE amplitude_after(Tail(events), key,
            IF Head(events).e = "sig_state_request" /\ Head(events).v = key
            THEN Head(events).val ELSE cur)

\* the keys handled by calling self.set_<key>(value)
SetterKeys == {"filter", "zoom", "laser", "intensity", "shutterconfig", "state",
               "camera_exposure_time", "camera_line_interval"}

\* the keys passed on with sig_state_request
ForwardedKeys ==
    {"samplerate", "sweeptime", "ETL_cfg_file",
     "etl_l_delay_%", "etl_l_ramp_rising_%", "etl_l_ramp_falling_%",
     "etl_l_amplitude", "etl_l_offset",
     "etl_r_delay_%", "etl_r_ramp_rising_%", "etl_r_ramp_falling_%",
     "etl_r_amplitude", "etl_r_offset",
     "galvo_l_frequency", "galvo_l_amplitude", "galvo_l_offset",
     "galvo_l_duty_cycle", "galvo_l_phase",
     "galvo_r_frequency", "galvo_r_amplitude", "galvo_r_offset",
     "galvo_r_duty_cycle", "galvo_r_phase",
     "laser_l_delay_%", "laser_l_pulse_%", "laser_l_max_amplitude",
     "laser_r_delay_%", "laser_r_pulse_%", "laser_r_max_amplitude",
     "camera_delay_%", "camera_pulse_%"}

\* the key/value pairs the requests of the model are made of; 'selected_row'
\* and 'acq_list' are keys of the shared state that are in neither list
RequestItems ==
    [key : {"shutterconfig"}, value : ShutterConfigs]
    \cup [key : {"etl_l_amplitude", "etl_r_amplitude"}, value : EtlAmplitudes]
    \cup [key : {"zoom", "selected_row", "acq_list"}, value : {0}]

\* a request: a dict, its keys distinct, in the order of its items
Requests ==
    UNION {{r \in [1..n -> RequestItems] :
                \A j, k \in 1..n : j # k => r[j].key # r[k].key} : n \in 1..MaxKeys}

handle_key_unlisted_forwarded(key, value, s) ==
    IF key = "shutterconfig" THEN [s EXCEPT !.shutterconfig = value]
    ELSE [s EXCEPT !.events = Append(@, StateRequestEv(key, value, s.hw))]

\* the body of the loop of state_request_handler for one key, other than
\* 'state': s holds the shutter configuration, the signals emitted so far and
\* the state they are emitted in
handle_key(key, value, s) ==
    IF key \in SetterKeys THEN
        IF key = "shutterconfig" THEN [s EXCEPT !.shutterconfig = value]
        ELSE IF key = "laser" THEN
            [s EXCEPT !.events = @ \o << Ev("laserenabler.enable", "laser", s.hw),
                                         StateRequestEv(key, value, s.hw) >>]
        ELSE IF key = "state" THEN s
        ELSE [s EXCEPT !.events = Append(@, StateRequestEv(key, value, s.hw))]
    ELSE IF key \in ForwardedKeys THEN
        [s EXCEPT !.events = Append(@, StateRequestEv(key, value, s.hw))]
    ELSE s

\* state_request_handler(dict): the keys are handled in the order of the dict
RECURSIVE state_request_handler(_, _)
state_request_handler(request, s) ==
    IF request = <<>> THEN s
    ELSE state_request_handler(Tail(request),
                               handle_key(Head(request).key, Head(request).value, s))

\* a request without a 'state' key arrives while the engine is idle
StateRequestHandler ==
    /\ IsIdle
    /\ \E request \in Requests :
          LET s == state_request_handler(request,
                      [shutterconfig |-> shutterconfig, events |-> <<>>, hw |-> Now]) IN
          /\ shutterconfig' = s.shutterconfig
          /\ etl_l_amplitude' = amplitude_after(s.events, "etl_l_amplitude", etl_l_amplitude)
          /\ etl_r_amplitude' = amplitude_after(s.events, "etl_r_amplitude", etl_r_amplitude)
          /\ log' = log \o s.events
          /\ run' = [NewRun("request") EXCEPT !.request = request]
    /\ progress' = progress
    /\ UNCHANGED <<moving, state, stopflag, shutters, open_tasks, counters, stack>>

(* ------------------------------- live() ------------------------------- *)
\* live(), entry: clear the stop flag, open the shutters
Live ==
    /\ At("live", "live")
    /\ stopflag' = stopflag_on_entry
    /\ shutter_left' = Opened.left
    /\ shutter_right' = Opened.right
    /\ shutterstate' = Opened.ss
    /\ log' = Append(log, Ev("open_shutters", shutterconfig,
                WithShutters(Now, Opened)))
    /\ stack' = Goto("poll")
    /\ UNCHANGED <<etl, moving, state, shutterconfig, open_tasks, counters, progress, run>>

\* live(), loop body up to processEvents(): snap_image()
LiveSnapImage ==
    /\ At("live", "poll")
    /\ loop_continues(stopflag)
    /\ Top.i < MaxCycles
    /\ log' = log \o snap_image_events(Now)
    /\ open_tasks' = close_tasks(create_tasks(open_tasks))
    /\ stack' = [stack EXCEPT ![Len(stack)].pc = "yield", ![Len(stack)].i = @ + 1]
    /\ UNCHANGED <<etl, moving, state, stopflag, shutters, shutterconfig, counters, progress, run>>

\* live(), loop body after processEvents(): open_shutters()
LiveAfterEvents ==
    /\ At("live", "yield")
    /\ shutter_left' = Opened.left
    /\ shutter_right' = Opened.right
    /\ shutterstate' = Opened.ss
    /\ log' = Append(log, Ev("open_shutters", shutterconfig,
                WithShutters(Now, Opened)))
    /\ stack' = Goto("poll")
    /\ UNCHANGED <<etl, moving, state, stopflag, shutterconfig, open_tasks, counters, progress, run>>

\* live(), after the loop: close_shutters(), sig_finished
LiveExit ==
    /\ At("live", "poll")
    /\ ~loop_continues(stopflag)
    /\ shutter_left' = Closed.left
    /\ shutter_right' = Closed.right
    /\ shutterstate' = Closed.ss
    /\ log' = log \o << Ev("close_shutters", "", WithShutters(Now, Closed)),
                        Ev("sig_finished", "live", WithShutters(Now, Closed)) >>
    /\ stack' = Pop
    /\ run' = Ret(run)
    /\ UNCHANGED <<etl, moving, state, stopflag, shutterconfig, open_tasks, counters, progress>>

(* ------------------------ start(), list handling ---------------------- *)
resolve_acq_list_first_row(cfg, row) == IF row = 0 THEN cfg ELSE << cfg[1] >>

\* start(row): the list to run is the configured list, or the selected row alone
resolve_acq_list(cfg, row) == IF row = 0 THEN cfg ELSE << cfg[row] >>

\* set_state(mode) for the two acquisition modes, and start(row) up to
\* run_acquisition_list: store the state, tell the waveform generator, clear the
\* stop flag, resolve the list, sig_update_gui_from_state(True),
\* prepare_acquisition_list() (the four counters)
Start(mode, cfg, row) ==
    LET acq_list == resolve_acq_list(cfg, row) IN
    /\ state' = mode
    /\ stopflag' = stopflag_on_entry
    /\ image_count' = 0
    /\ acquisition_count' = 0
    /\ total_acquisition_count' = Len(acq_list)
    /\ total_image_count' = list_image_count(acq_list)
    /\ log' = log \o << Ev("sig_state_request", mode,
                           HW(shutter_left, shutter_right, shutterstate, open_tasks, mode)),
                        Ev("sig_update_gui_from_state", "True",
                           HW(shutter_left, shutter_right, shutterstate, open_tasks, mode)) >>
    /\ progress' = progress
    /\ run' = IF IsIdle
              THEN [NewRun(mode) EXCEPT !.acq_list = acq_list,
                                        !.request = <<cfg, row>>]
              ELSE RunBase(mode)
    /\ stack' = Append(stack, [Frame("start", "for_acq") EXCEPT !.acq_list = acq_list, !.a = 1])
    /\ UNCHANGED <<etl, moving, shutters, shutterconfig, open_tasks>>

\* the lists start(row) can resolve to, over every configured list and selected row
SelectedLists == {resolve_acq_list(cfg[1], cfg[2]) :
                    cfg \in {c \in AcquisitionLists \X (1..MaxAcqs) : c[2] <= Len(c[1])}}

\* {'state': 'run_selected_acquisition'}: start(row = self.state['selected_row'])
RequestRunSelectedAcquisition ==
    /\ IsIdle
    /\ open_tasks < MaxOpenTasks
    /\ \E acq_list \in SelectedLists : Start("run_selected_acquisition", acq_list, 0)

\* {'state': 'run_selected_acquisition'}, the configured list and the selected
\* row kept in the record of the run (rows count from 1 here, from 0 in Python)
RequestRunSelectedRow ==
    /\ IsIdle
    /\ open_tasks < MaxOpenTasks
    /\ \E cfg \in AcquisitionLists : \E row \in 1..Len(cfg) :
          Start("run_selected_acquisition", cfg, row)

\* {'state': 'run_acquisition_list'}: start(row = None)
RequestRunAcquisitionList ==
    /\ IsIdle
    /\ open_tasks < MaxOpenTasks
    /\ \E cfg \in AcquisitionLists : Start("run_acquisition_list", cfg, 0)

prepare_requests_laser_not_awaited(hw) ==
    << Ev("print_running", "", hw),
       Ev("sig_move_absolute_and_wait_until_done", "startpoint", [hw EXCEPT !.moving = FALSE]),
       Ev("sig_state_request_and_wait_until_done", "filter", [hw EXCEPT !.moving = FALSE]),
       Ev("sig_state_request_and_wait_until_done", "zoom", [hw EXCEPT !.moving = FALSE]),
       Ev("laserenabler.enable", "laser", [hw EXCEPT !.moving = FALSE]),
       Ev("sig_state_request", "laser", [hw EXCEPT !.moving = FALSE]),
       Ev("sig_state_request_and_wait_until_done", "intensity", [hw EXCEPT !.moving = FALSE]) >>

\* the blocking requests of prepare_acquisition, in the order they are made
prepare_requests(hw) ==
    << Ev("print_running", "", hw),
       Ev("sig_move_absolute_and_wait_until_done", "startpoint", [hw EXCEPT !.moving = FALSE]),
       Ev("sig_state_request_and_wait_until_done", "filter", [hw EXCEPT !.moving = FALSE]),
       Ev("sig_state_request_and_wait_until_done", "zoom", [hw EXCEPT !.moving = FALSE]),
       Ev("laserenabler.enable", "laser", [hw EXCEPT !.moving = FALSE]),
       Ev("sig_state_request_and_wait_until_done", "laser", [hw EXCEPT !.moving = FALSE]),
       Ev("sig_state_request_and_wait_until_done", "intensity", [hw EXCEPT !.moving = FALSE]) >>

prepare_series_without_metadata(hw) ==
    << Ev("sig_prepare_image_series", "", hw) >> \o prepare_image_series_events(hw)

\* what prepare_acquisition does after the requests: sig_prepare_image_series,
\* prepare_image_series(), write_metadata(acq)
prepare_series_and_metadata(hw) ==
    << Ev("sig_prepare_image_series", "", hw) >>
    \o prepare_image_series_events(hw)
    \o << Ev("write_metadata", "", [hw EXCEPT !.tasks = create_tasks(hw.tasks)]) >>

\* run_acquisition_list, loop body: prepare_acquisition(acq)
PrepareAcquisition ==
    /\ At("start", "for_acq")
    /\ Top.a <= Len(Top.acq_list)
    /\ shutterconfig' = Top.acq_list[Top.a].shutter
    /\ open_tasks' = create_tasks(open_tasks)
    /\ moving' = FALSE
    /\ log' = log \o prepare_requests(Now)
                  \o prepare_series_and_metadata([Now EXCEPT !.moving = FALSE])
    /\ stack' = [stack EXCEPT ![Len(stack)].pc = "run_acquisition", ![Len(stack)].i = 0]
    /\ UNCHANGED <<etl, state, stopflag, shutters, counters, progress, run>>

\* run_acquisition, before the loop: open_shutters()
RunAcquisition ==
    /\ At("start", "run_acquisition")
    /\ shutter_left' = Opened.left
    /\ shutter_right' = Opened.right
    /\ shutterstate' = Opened.ss
    /\ log' = Append(log, Ev("open_shutters", shutterconfig,
                WithShutters(Now, Opened)))
    /\ stack' = Goto("plane")
    /\ UNCHANGED <<etl, moving, state, stopflag, shutterconfig, open_tasks, counters, progress, run>>

next_image_count_stale(c) == c

\* self.image_count += 1
next_image_count(c) == c + 1

\* run_acquisition, loop body up to processEvents(): the stop flag is clear, so
\* count the image, snap_image_in_series(), sig_add_images_to_image_series
RunAcquisitionSnap ==
    /\ At("start", "plane")
    /\ Top.i < get_image_count(Top.acq_list[Top.a])
    /\ loop_continues(stopflag)
    /\ image_count' = next_image_count(image_count)
    /\ log' = log \o snap_image_in_series_events(Now)
                  \o << Ev("sig_add_images_to_image_series", "", Now) >>
    /\ stack' = Goto("yield")
    /\ UNCHANGED <<etl, moving, state, stopflag, shutters, shutterconfig, open_tasks,
                   acquisition_count, total_acquisition_count, total_image_count,
                   progress, run>>

send_progress_countdown(cur_acq, tot_acqs, cur_image, images_in_acq, total, counter) ==
    [current_acq |-> cur_acq, total_acqs |-> tot_acqs,
     current_image_in_acq |-> images_in_acq - cur_image, images_in_acq |-> images_in_acq,
     total_image_count |-> total, image_counter |-> counter]

\* send_progress: the record emitted with sig_progress
send_progress(cur_acq, tot_acqs, cur_image, images_in_acq, total, counter) ==
    [current_acq |-> cur_acq, total_acqs |-> tot_acqs,
     current_image_in_acq |-> cur_image, images_in_acq |-> images_in_acq,
     total_image_count |-> total, image_counter |-> counter]

plane_step_events_not_awaited(hw) ==
    << Ev("sig_move_relative", "delta_z", [hw EXCEPT !.moving = TRUE]),
       Ev("sig_progress", "", [hw EXCEPT !.moving = TRUE]) >>

\* what the loop body of run_acquisition does after processEvents():
\* move_relative(delta_z, wait_until_done=True), then send_progress
plane_step_events(hw) ==
    << Ev("sig_move_relative_and_wait_until_done", "delta_z", [hw EXCEPT !.moving = FALSE]),
       Ev("sig_progress", "", [hw EXCEPT !.moving = FALSE]) >>

\* run_acquisition, loop body after processEvents(): the blocking z-step, send_progress
RunAcquisitionAfterEvents ==
    /\ At("start", "yield")
    /\ log' = log \o plane_step_events(Now)
    /\ moving' = plane_step_events(Now)[2].hw.moving
    /\ progress' = Append(progress,
                     send_progress(acquisition_count, total_acquisition_count, Top.i,
                                   get_image_count(Top.acq_list[Top.a]),
                                   total_image_count, image_count))
    /\ stack' = [stack EXCEPT ![Len(stack)].pc = "plane", ![Len(stack)].i = @ + 1]
    /\ UNCHANGED <<etl, state, stopflag, shutters, shutterconfig, open_tasks, counters, run>>

\* run_acquisition, the stop flag is found set at the head of an iteration:
\* close_image_series(), sig_end_image_series, break; then close_shutters()
RunAcquisitionStopped ==
    /\ At("start", "plane")
    /\ Top.i < get_image_count(Top.acq_list[Top.a])
    /\ ~loop_continues(stopflag)
    /\ open_tasks' = close_tasks(open_tasks)
    /\ shutter_left' = Closed.left
    /\ shutter_right' = Closed.right
    /\ shutterstate' = Closed.ss
    /\ log' = log \o << Ev("close_tasks", "", [Now EXCEPT !.tasks = close_tasks(open_tasks)]),
                        Ev("sig_end_image_series", "", [Now EXCEPT !.tasks = close_tasks(open_tasks)]),
                        Ev("close_shutters", "", WithShutters([Now EXCEPT !.tasks = close_tasks(open_tasks)], Closed)) >>
    /\ stack' = Goto("close_acquisition")
    /\ UNCHANGED <<etl, moving, state, stopflag, shutterconfig, counters, progress, run>>

\* run_acquisition, the loop ran through all planes: close_shutters()
RunAcquisitionDone ==
    /\ At("start", "plane")
    /\ Top.i >= get_image_count(Top.acq_list[Top.a])
    /\ shutter_left' = Closed.left
    /\ shutter_right' = Closed.right
    /\ shutterstate' = Closed.ss
    /\ log' = Append(log, Ev("close_shutters", "", WithShutters(Now, Closed)))
    /\ stack' = Goto("close_acquisition")
    /\ UNCHANGED <<etl, moving, state, stopflag, shutterconfig, open_tasks, counters, progress, run>>

next_acq_skips_one(a) == a + 2

\* "for acq in acq_list" in run_acquisition_list: the member that is run next
next_acq(a) == a + 1

\* close_acquisition: unless stopped, move back (blocking) and
\* close_image_series(); sig_end_image_series; count the acquisition
CloseAcquisition ==
    /\ At("start", "close_acquisition")
    /\ open_tasks' = IF stopflag THEN open_tasks ELSE close_tasks(open_tasks)
    /\ log' = log
         \o (IF stopflag THEN <<>>
             ELSE << Ev("sig_move_absolute_and_wait_until_done", "startpoint",
                        [Now EXCEPT !.moving = FALSE]),
                     Ev("close_tasks", "",
                        [Now EXCEPT !.tasks = close_tasks(open_tasks), !.moving = FALSE]) >>)
         \o << Ev("sig_end_image_series", "",
                  [Now EXCEPT !.tasks = IF stopflag THEN open_tasks ELSE close_tasks(open_tasks),
                              !.moving = IF stopflag THEN moving ELSE FALSE]),
               Ev("close_acquisition_end", "",
                  [Now EXCEPT !.tasks = IF stopflag THEN open_tasks ELSE close_tasks(open_tasks),
                              !.moving = IF stopflag THEN moving ELSE FALSE]) >>
    /\ moving' = IF stopflag THEN moving ELSE FALSE
    /\ acquisition_count' = acquisition_count + 1
    /\ stack' = [stack EXCEPT ![Len(stack)].pc = "for_acq", ![Len(stack)].a = next_acq(@)]
    /\ UNCHANGED <<etl, state, stopflag, shutters, shutterconfig, image_count,
                   total_acquisition_count, total_image_count, progress, run>>

\* close_acquisition_list: unless stopped, move to the list's start point (not
\* blocking); sig_finished.  Then start() ends: sig_update_gui_from_state(False)
CloseAcquisitionList ==
    /\ At("start", "for_acq")
    /\ Top.a > Len(Top.acq_list)
    /\ log' = log
         \o (IF stopflag THEN <<>>
             ELSE << [Ev("sig_move_absolute", "startpoint", [Now EXCEPT !.moving = TRUE])
                        EXCEPT !.a = 0] >>)
         \o << [Ev("sig_finished", "close_acquisition_list",
                   [Now EXCEPT !.moving = IF stopflag THEN moving ELSE TRUE]) EXCEPT !.a = 0],
               [Ev("sig_update_gui_from_state", "False",
                   [Now EXCEPT !.moving = IF stopflag THEN moving ELSE TRUE]) EXCEPT !.a = 0] >>
    /\ moving' = IF stopflag THEN moving ELSE TRUE
    /\ stack' = Pop
    /\ run' = Ret(run)
    /\ UNCHANGED <<etl, state, stopflag, shutters, shutterconfig, open_tasks, counters, progress>>

(* --------------------- lightsheet_alignment_mode() -------------------- *)
\* one pass of the loop body: left shutter open, snap_image(), left shutter
\* closed, right shutter open, snap_image(), right shutter closed
alignment_cycle_events(hw) ==
    << Ev("shutter_left.open", "", [hw EXCEPT !.left = TRUE]) >>
    \o snap_image_events([hw EXCEPT !.left = TRUE])
    \o << Ev("shutter_left.close", "", [hw EXCEPT !.left = FALSE]),
          Ev("shutter_right.open", "", [hw EXCEPT !.left = FALSE, !.right = TRUE]) >>
    \o snap_image_events([hw EXCEPT !.left = FALSE, !.right = TRUE])
    \o << Ev("shutter_right.close", "", [hw EXCEPT !.left = FALSE, !.right = FALSE]) >>

\* lightsheet_alignment_mode(): clear the stop flag and run the loop body once;
\* its last statement, QApplication.processEvents(), names QApplication, which
\* the module does not import (it imports QtWidgets), so it raises NameError.
\* Nothing catches it in lightsheet_alignment_mode, set_state or
\* state_request_handler: the handler ends there, without close_shutters() and
\* without sig_finished.
LightsheetAlignmentMode ==
    /\ At("lightsheet_alignment_mode", "lightsheet_alignment_mode")
    /\ stopflag' = stopflag_on_entry
    /\ shutter_left' = FALSE
    /\ shutter_right' = FALSE
    /\ open_tasks' = close_tasks(create_tasks(close_tasks(create_tasks(open_tasks))))
    /\ log' = log \o alignment_cycle_events(Now)
                  \o << Ev("NameError", "QApplication", HW(FALSE, FALSE, shutterstate, open_tasks, state)) >>
    /\ stack' = Pop
    /\ run' = [Ret(run) EXCEPT !.raised = TRUE]
    /\ UNCHANGED <<etl, moving, state, shutterstate, shutterconfig, counters, progress>>

(* ---------------------------- visual_mode() --------------------------- *)
\* visual_mode(), entry: the two requests that set the ETL amplitudes to 0
zero_etl_requests(hw) ==
    << StateRequestEv("etl_l_amplitude", 0, hw), StateRequestEv("etl_r_amplitude", 0, hw) >>

restore_etl_requests_swapped(old_l_amp, old_r_amp, hw) ==
    << StateRequestEv("etl_l_amplitude", old_r_amp, hw),
       StateRequestEv("etl_r_amplitude", old_l_amp, hw) >>

\* visual_mode(), exit: the two requests that put the saved ETL amplitudes back
restore_etl_requests(old_l_amp, old_r_amp, hw) ==
    << StateRequestEv("etl_l_amplitude", old_l_amp, hw),
       StateRequestEv("etl_r_amplitude", old_r_amp, hw) >>

\* visual_mode(), entry: ask for both ETL amplitudes to be 0,
\* prepare_image_series(), clear the stop flag, open_shutters()
VisualMode ==
    /\ At("visual_mode", "visual_mode")
    /\ stopflag' = stopflag_on_entry
    /\ open_tasks' = create_tasks(open_tasks)
    /\ shutter_left' = Opened.left
    /\ shutter_right' = Opened.right
    /\ shutterstate' = Opened.ss
    /\ etl_l_amplitude' = amplitude_after(zero_etl_requests(Now), "etl_l_amplitude", etl_l_amplitude)
    /\ etl_r_amplitude' = amplitude_after(zero_etl_requests(Now), "etl_r_amplitude", etl_r_amplitude)
    /\ log' = log \o zero_etl_requests(Now)
                  \o prepare_image_series_events(Now)
                  \o << Ev("open_shutters", shutterconfig,
                           WithShutters([Now EXCEPT !.tasks = create_tasks(open_tasks)], Opened)) >>
    /\ stack' = [stack EXCEPT ![Len(stack)].pc = "poll",
                              ![Len(stack)].old_l_amp = etl_l_amplitude,
                              ![Len(stack)].old_r_amp = etl_r_amplitude]
    /\ UNCHANGED <<moving, state, shutterconfig, counters, progress, run>>

\* visual_mode(), loop body up to processEvents(): snap_image_in_series()
VisualSnapImage ==
    /\ At("visual_mode", "poll")
    /\ loop_continues(stopflag)
    /\ Top.i < MaxCycles
    /\ log' = log \o snap_image_in_series_events(Now)
    /\ stack' = [stack EXCEPT ![Len(stack)].pc = "yield", ![Len(stack)].i = @ + 1]
    /\ UNCHANGED <<etl, moving, state, stopflag, shutters, shutterconfig, open_tasks, counters, progress, run>>

\* visual_mode(), loop body after processEvents(): open_shutters()
VisualAfterEvents ==
    /\ At("visual_mode", "yield")
    /\ shutter_left' = Opened.left
    /\ shutter_right' = Opened.right
    /\ shutterstate' = Opened.ss
    /\ log' = Append(log, Ev("open_shutters", shutterconfig,
                WithShutters(Now, Opened)))
    /\ stack' = Goto("poll")
    /\ UNCHANGED <<etl, moving, state, stopflag, shutterconfig, open_tasks, counters, progress, run>>

\* visual_mode(), after the loop: close_image_series(), close_shutters(),
\* sig_finished, then ask for the saved ETL amplitudes
VisualExit ==
    /\ At("visual_mode", "poll")
    /\ ~loop_continues(stopflag)
    /\ open_tasks' = close_tasks(open_tasks)
    /\ shutter_left' = Closed.left
    /\ shutter_right' = Closed.right
    /\ shutterstate' = Closed.ss
    /\ log' = log \o << Ev("close_tasks", "", [Now EXCEPT !.tasks = close_tasks(open_tasks)]),
                        Ev("close_shutters", "", WithShutters([Now EXCEPT !.tasks = close_tasks(open_tasks)], Closed)),
                        Ev("sig_finished", "visual_mode", WithShutters([Now EXCEPT !.tasks = close_tasks(open_tasks)], Closed)) >>
                  \o restore_etl_requests(Top.old_l_amp, Top.old_r_amp,
                         WithShutters([Now EXCEPT !.tasks = close_tasks(open_tasks)], Closed))
    /\ etl_l_amplitude' = amplitude_after(
            restore_etl_requests(Top.old_l_amp, Top.old_r_amp, Now), "etl_l_amplitude", etl_l_amplitude)
    /\ etl_r_amplitude' = amplitude_after(
            restore_etl_requests(Top.old_l_amp, Top.old_r_amp, Now), "etl_r_amplitude", etl_r_amplitude)
    /\ stack' = Pop
    /\ run' = Ret(run)
    /\ UNCHANGED <<moving, state, stopflag, shutterconfig, counters, progress>>

(* --------------------------- execute_script() ------------------------- *)
\* execute_script(script), up to exec(): sig_update_gui_from_state(True),
\* state 'running_script'.  A script is a sequence of instructions: a stage
\* move asked of the engine, or one that raises.
ExecuteScript ==
    /\ IsIdle
    /\ \E script \in Scripts :
         stack' = Append(stack, [Frame("execute_script", "exec") EXCEPT !.script = script])
    /\ state' = "running_script"
    /\ log' = Append(log, Ev("sig_update_gui_from_state", "True", Now))
    /\ progress' = progress
    /\ run' = NewRun("execute_script")
    /\ UNCHANGED <<etl, moving, stopflag, shutters, shutterconfig, open_tasks, counters>>

\* exec(script): the next instruction is a move
ExecMove ==
    /\ At("execute_script", "exec")
    /\ Top.script # <<>>
    /\ Head(Top.script) = "move"
    /\ log' = Append(log, Ev("sig_move_relative", "script", [Now EXCEPT !.moving = TRUE]))
    /\ moving' = TRUE
    /\ stack' = [stack EXCEPT ![Len(stack)].script = Tail(@)]
    /\ UNCHANGED <<etl, state, stopflag, shutters, shutterconfig, open_tasks, counters, progress, run>>

\* exec(script): the next instruction raises; the bare except catches it and
\* prints the traceback, the rest of the script is not run
ExecRaise ==
    /\ At("execute_script", "exec")
    /\ Top.script # <<>>
    /\ Head(Top.script) = "raise"
    /\ log' = Append(log, Ev("traceback.print_exc", "", Now))
    /\ stack' = [stack EXCEPT ![Len(stack)].script = <<>>]
    /\ UNCHANGED <<etl, moving, state, stopflag, shutters, shutterconfig, open_tasks, counters, progress, run>>

script_end_state_kept == "running_script"

\* the state execute_script stores when the script is over
script_end_state == "idle"

\* execute_script(script), after the try statement: sig_finished, state 'idle',
\* sig_update_gui_from_state(False)
ExecuteScriptEnd ==
    /\ At("execute_script", "exec")
    /\ Top.script = <<>>
    /\ state' = script_end_state
    /\ log' = log \o << Ev("sig_finished", "execute_script", Now),
                        Ev("sig_update_gui_from_state", "False", [Now EXCEPT !.st = script_end_state]) >>
    /\ stack' = Pop
    /\ run' = Ret(run)
    /\ UNCHANGED <<etl, moving, stopflag, shutters, shutterconfig, open_tasks, counters, progress>>

Next ==
    \/ RequestLive
    \/ RequestRunSelectedAcquisition
    \/ RequestRunAcquisitionList
    \/ RequestLightsheetAlignmentMode
    \/ RequestVisualMode
    \/ RequestIdle
    \/ RequestUnknownState
    \/ RequestShutterconfig
    \/ ExecuteScript
    \/ MotionDone
    \/ ClearRecord
    \/ Live
    \/ LiveSnapImage
    \/ LiveAfterEvents
    \/ LiveExit
    \/ PrepareAcquisition
    \/ RunAcquisition
    \/ RunAcquisitionSnap
    \/ RunAcquisitionAfterEvents
    \/ RunAcquisitionStopped
    \/ RunAcquisitionDone
    \/ CloseAcquisition
    \/ CloseAcquisitionList
    \/ LightsheetAlignmentMode
    \/ VisualMode
    \/ VisualSnapImage
    \/ VisualAfterEvents
    \/ VisualExit
    \/ ExecMove
    \/ ExecRaise
    \/ ExecuteScriptEnd

Spec == Init /\ [][Next]_vars

(* --------------------------- acquisition runs ------------------------- *)
\* the steps of start(): statements of one handler, which the interpreter runs
\* one after the other, every blocking emit returning once its slot has run
EngineStep ==
    \/ PrepareAcquisition
    \/ RunAcquisition
    \/ RunAcquisitionSnap
    \/ RunAcquisitionAfterEvents
    \/ RunAcquisitionStopped
    \/ RunAcquisitionDone
    \/ CloseAcquisition
    \/ CloseAcquisitionList

NextRun ==
    \/ RequestRunSelectedRow
    \/ RequestRunAcquisitionList
    \/ RequestIdle
    \/ MotionDone
    \/ ClearRecord
    \/ PrepareAcquisition
    \/ RunAcquisition
    \/ RunAcquisitionSnap
    \/ RunAcquisitionAfterEvents
    \/ RunAcquisitionStopped
    \/ RunAcquisitionDone
    \/ CloseAcquisition
    \/ CloseAcquisitionList

\* acquisition runs only; a handler that has started is run to its end
SpecRun == Init /\ [][NextRun]_vars /\ WF_vars(EngineStep)

(* ------------------------ a failing collaborator ---------------------- *)
\* A waveform generator call raises inside a mode's loop: create_tasks() in
\* snap_image() (live), start_tasks() in snap_image_in_series() (visual mode, or
\* run_acquisition after self.image_count += 1).  live, visual_mode, start,
\* run_acquisition, set_state and state_request_handler have no try statement:
\* the exception leaves the handler, and what follows the loop is not run.
WaveformFault ==
    /\ stack # <<>>
    /\ \/ Top.fn \in {"live", "visual_mode"} /\ Top.pc = "poll" /\ Top.i < MaxCycles
       \/ Top.fn = "start" /\ Top.pc = "plane" /\ Top.i < get_image_count(Top.acq_list[Top.a])
    /\ stopflag = FALSE
    /\ image_count' = IF Top.fn = "start" THEN next_image_count(image_count) ELSE image_count
    /\ log' = Append(log, Ev("raise", Top.fn, Now))
    /\ stack' = Pop
    /\ run' = [Ret(run) EXCEPT !.raised = TRUE]
    /\ UNCHANGED <<etl, moving, state, stopflag, shutters, shutterconfig, open_tasks,
                   acquisition_count, total_acquisition_count, total_image_count, progress>>

NextFault == Next \/ WaveformFault

SpecFault == Init /\ [][NextFault]_vars

(* --------------- requests during the preview modes -------------------- *)
\* The preview modes (live, visual mode) with the requests a user interface
\* sends while they run and between them: parameter requests of several keys
\* between the runs, and a new shutter configuration, an unknown mode name or
\* a stop inside processEvents().
NextRequests ==
    \/ RequestLive
    \/ RequestVisualMode
    \/ RequestIdle
    \/ RequestUnknownState
    \/ RequestUnknownStateInLoop
    \/ RequestShutterconfigInLoop
    \/ StateRequestHandler
    \/ ClearRecord
    \/ Live
    \/ LiveSnapImage
    \/ LiveAfterEvents
    \/ LiveExit
    \/ VisualMode
    \/ VisualSnapImage
    \/ VisualAfterEvents
    \/ VisualExit

SpecRequests == Init /\ [][NextRequests]_vars

(* ---------------- mode requests inside processEvents() ---------------- *)
\* set_state(mode) for a preview mode, called by state_request_handler while a
\* loop is inside processEvents(): the slot runs on the stack of the loop that
\* yielded, and the mode's function is called from there
SetStateModeInLoop(mode, announced, frame) ==
    /\ state' = mode
    /\ log' = Append(log, Ev("sig_state_request", announced,
                                 HW(shutter_left, shutter_right, shutterstate, open_tasks, mode)))
    /\ run' = [run EXCEPT !.last = mode]
    /\ stack' = Append(stack, frame)
    /\ UNCHANGED <<etl, moving, stopflag, shutters, shutterconfig, open_tasks, counters, progress>>

\* {'state': 'live'} handled inside processEvents() of a running loop
RequestLiveInLoop ==
    /\ AtYield
    /\ Len(stack) < MaxDepth
    /\ open_tasks < MaxOpenTasks
    /\ SetStateModeInLoop("live", "live", Frame("live", "live"))

\* {'state': 'visual_mode'} handled inside processEvents() of a running loop
RequestVisualModeInLoop ==
    /\ AtYield
    /\ Len(stack) < MaxDepth
    /\ open_tasks < MaxOpenTasks
    /\ SetStateModeInLoop("visual_mode", "live", Frame("visual_mode", "visual_mode"))

\* the preview modes, with mode requests and stop requests handled inside
\* processEvents() of a loop that is running
NextReentrant ==
    \/ RequestLive
    \/ RequestVisualMode
    \/ RequestIdle
    \/ RequestLiveInLoop
    \/ RequestVisualModeInLoop
    \/ ClearRecord
    \/ Live
    \/ LiveSnapImage
    \/ LiveAfterEvents
    \/ LiveExit
    \/ VisualMode
    \/ VisualSnapImage
    \/ VisualAfterEvents
    \/ VisualExit

SpecReentrant == Init /\ [][NextReentrant]_vars

(* ---------------------------- write_metadata -------------------------- *)
\* values of acq['z_step'], acq['laser'] and acq['filename']
ZSteps == {1, 2, 5}
Lasers == {"488 nm", "561 nm"}
Filenames == {"one.raw", "two.raw"}
\* the acquisitions write_metadata is called with; the fields that do not
\* vary here hold the name of the value
MetadataAcquisitions ==
    [folder : {"folder/"}, filename : Filenames, z_step : ZSteps, laser : Lasers,
     intensity : {"intensity"}, zoom : {"zoom"}, filter : {"filter"},
     shutter : ShutterConfigs, x_pos : {"x_pos"}, y_pos : {"y_pos"}, f_pos : {"f_pos"},
     z_start : {"z_start"}, z_end : {"z_end"}, planes : 0..MaxPlanes]

\* write_line(file, key, value): the line written, as the pieces of
\* '[' + str(key) + '] ' + str(value); the empty sequence is the empty line
write_line(key, value) ==
    IF key # "" THEN << "[", key, "] ", value >> ELSE <<>>

\* write_metadata(acq): the lines written to the file, in order
write_metadata(acq) ==
    << write_line("Metadata for file", << acq.folder, acq.filename >>),
       write_line("z_stepsize", acq.z_step),
       write_line("", ""),
       write_line("CFG", ""),
       write_line("Laser", acq.laser),
       write_line("Intensity (%)", acq.intensity),
       write_line("Zoom", acq.zoom),
       write_line("Pixelsize in um", "pixelsize"),
       write_line("Filter", acq.filter),
       write_line("Shutter", acq.shutter),
       write_line("", ""),
       write_line("POSTION", ""),
       write_line("x_pos", acq.x_pos),
       write_line("y_pos", acq.y_pos),
       write_line("f_pos", acq.f_pos),
       write_line("z_start", acq.z_start),
       write_line("z_end", acq.z_end),
       write_line("z_stepsize", acq.z_step),
       write_line("z_planes", get_image_count(acq)),
       write_line("", ""),
       write_line("ETL PARAMETERS", ""),
       write_line("ETL CFG File", "ETL_cfg_file"),
       write_line("etl_l_offset", "etl_l_offset"),
       write_line("etl_l_amplitude", etl_l_amplitude),
       write_line("etl_r_offset", "etl_r_offset"),
       write_line("etl_r_amplitude", etl_r_amplitude),
       write_line("", ""),
       write_line("GALVO PARAMETERS", ""),
       write_line("galvo_l_frequency", "galvo_l_frequency"),
       write_line("galvo_l_amplitude", "galvo_l_amplitude"),
       write_line("galvo_l_offset", "galvo_l_offset"),
       write_line("galvo_r_amplitude", "galvo_r_amplitude"),
       write_line("galvo_r_offset", "galvo_r_offset"),
       write_line("", ""),
       write_line("CAMERA PARAMETERS", ""),
       write_line("camera_exposure", "camera_exposure_time"),
       write_line("camera_line_interval", "camera_line_interval") >>

\* a call of write_metadata(acq); the record keeps acq and the file's lines
WriteMetadata ==
    /\ IsIdle
    /\ \E acq \in MetadataAcquisitions :
          /\ log' = << [Ev("write_metadata", "", Now) EXCEPT !.val = write_metadata(acq)] >>
          /\ run' = [NewRun("write_metadata") EXCEPT !.request = << acq >>, !.returned = TRUE]
    /\ UNCHANGED <<etl, moving, state, stopflag, shutters, shutterconfig, open_tasks,
                   counters, stack, progress>>

NextMetadata ==
    \/ WriteMetadata
    \/ ClearRecord

SpecMetadata == Init /\ [][NextMetadata]_vars

(* ------------------------- reading the record ------------------------- *)
AcquisitionModes == {"run_selected_acquisition", "run_acquisition_list"}
Returned == stack = <<>> /\ run.returned /\ ~run.raised
Positions(e) == {j \in DOMAIN log : log[j].e = e}
PositionsOf(e, a) == {j \in DOMAIN log : log[j].e = e /\ log[j].a = a}
\* the plane counts of the first n members of the list that was run
RECURSIVE PlanesBefore(_, _)
PlanesBefore(acq_list, n) ==
    IF n = 0 THEN 0 ELSE acq_list[n].planes + PlanesBefore(acq_list, n - 1)
\* every create_tasks of the record is matched by a close_tasks
TasksBalanced == Cardinality(Positions("create_tasks")) = Cardinality(Positions("close_tasks"))

(* ------------------------------- claims ------------------------------- *)
\* the first stop request of an acquisition run came in the processEvents()
\* call of a plane that was not the last plane of its acquisition
StoppedMidAcquisition ==
    /\ run.mode \in AcquisitionModes
    /\ run.stopped
    /\ run.stop_k < run.acq_list[run.stop_a].planes

\* C1: when a stop request is taken at the yield point of an acquisition run
\* after k planes of acquisition i were captured, k below its plane count, then
\* once the run has returned image_count is the plane count of the earlier
\* acquisitions plus k, both shutters are closed and shutterstate is False, the
\* image series is closed (every task set created was closed) and the state is
\* 'idle'.
C1_StopMidAcquisition ==
    (Returned /\ StoppedMidAcquisition) =>
        /\ image_count = PlanesBefore(run.acq_list, run.stop_a - 1) + run.stop_k
        /\ ~shutter_left /\ ~shutter_right /\ ~shutterstate
        /\ TasksBalanced
        /\ state = "idle"

\* C2: an acquisition run with plane counts p1..pN that is not stopped emits
\* the progress records with image_counter 1, 2, ... in that order, each with
\* total_image_count p1+...+pN, and has emitted exactly p1+...+pN of them when
\* it returns.
C2_ProgressCounts ==
    (run.mode \in AcquisitionModes /\ ~run.stopped) =>
        /\ \A j \in DOMAIN progress :
              /\ progress[j].image_counter = j
              /\ progress[j].total_image_count = PlanesBefore(run.acq_list, Len(run.acq_list))
        /\ Returned => Len(progress) = PlanesBefore(run.acq_list, Len(run.acq_list))

C2_Witness ==
    /\ Returned
    /\ run.mode = "run_acquisition_list"
    /\ ~run.stopped
    /\ Len(run.acq_list) = 2
    /\ run.acq_list[1].planes = 1
    /\ run.acq_list[2].planes = 2
    /\ Len(progress) = 3

\* C3: whenever an imaging mode has returned, no waveform task set is left
\* open: every create_tasks was matched by a close_tasks.
C3_NoTasksLeftOpen ==
    (Returned /\ run.mode \in ImagingModes) => TasksBalanced

\* C4: in an acquisition run both shutters are closed and shutterstate is
\* False when the preparation of an acquisition begins and when its close step
\* has ended, stopped or not.
C4_ShuttersClosedAroundAcquisition ==
    \A j \in DOMAIN log :
        log[j].e \in {"print_running", "close_acquisition_end"} =>
            ~log[j].hw.left /\ ~log[j].hw.right /\ ~log[j].hw.ss

\* a stopped run of two acquisitions, the first of which had opened a shutter:
\* both have been prepared and closed
C4_Witness ==
    /\ Returned
    /\ run.stopped
    /\ Len(run.acq_list) = 2
    /\ Cardinality(Positions("close_acquisition_end")) = 2
    /\ Cardinality(Positions("print_running")) = 2
    /\ \E j \in Positions("sig_add_images_to_image_series") : log[j].hw.left \/ log[j].hw.right

\* C5: after an acquisition run has completed with no stop request, the state
\* is 'idle' when sig_finished is emitted and afterwards.
C5_IdleOnCompletion ==
    (run.mode \in AcquisitionModes /\ ~run.stopped) =>
        /\ \A j \in Positions("sig_finished") : log[j].hw.st = "idle"
        /\ Returned => state = "idle"

\* C6: when a collaborator call raises inside the loop of an imaging mode, the
\* failure stays inside the engine's request handler, which stores state 'idle'
\* and emits sig_finished.
C6_FailureContained ==
    \A j \in Positions("raise") :
        /\ ~run.raised
        /\ stack = <<>> => (state = "idle" /\ \E k \in Positions("sig_finished") : k > j)

\* C7: for every script, raising or not, nothing propagates out of
\* execute_script; the state is 'running_script' while the script runs and
\* 'idle' once execute_script has returned, and sig_finished has been emitted
\* (once).
C7_ScriptContained ==
    /\ (stack # <<>> /\ Top.fn = "execute_script") => state = "running_script"
    /\ run.mode = "execute_script" => ~run.raised
    /\ (run.mode = "execute_script" /\ stack = <<>>) =>
          /\ run.returned
          /\ state = "idle"
          /\ Cardinality(Positions("sig_finished")) = 1

\* a script that moved the stage and then raised has been run
C7_Witness ==
    /\ run.mode = "execute_script"
    /\ stack = <<>>
    /\ Positions("traceback.print_exc") # {}
    /\ Positions("sig_move_relative") # {}

\* C8: once the stop flag has been set during an acquisition run, nothing is
\* done for the acquisitions that follow in the list: no move to their start
\* point, no filter, zoom, laser or intensity request, no prepare-series
\* signal, no metadata record, no shutter opened.
C8_NoWorkAfterStop ==
    (run.mode \in AcquisitionModes /\ run.stopped) =>
        \A j \in DOMAIN log :
            log[j].a > run.stop_a =>
                log[j].e \notin {"sig_move_absolute_and_wait_until_done",
                                 "sig_state_request_and_wait_until_done",
                                 "sig_prepare_image_series", "write_metadata",
                                 "open_shutters"}

\* C9: in every imaging mode whose loop a stop request ends, sig_finished is
\* emitted only after the cleanup: at every emission both shutters are closed
\* and no image series is open.
C9_FinishedAfterCleanup ==
    (run.mode \in ImagingModes /\ run.stopped) =>
        \A j \in Positions("sig_finished") :
            /\ ~log[j].hw.left /\ ~log[j].hw.right
            /\ log[j].hw.tasks = log[1].hw.tasks

\* C10: the metadata record of an acquisition that is executed is written
\* exactly once, after the move to its start point and its filter, zoom, laser
\* and intensity requests, and before its first waveform cycle; it is not
\* written again during or after the per-plane loop.
C10_MetadataOnce ==
    run.mode \in AcquisitionModes =>
        \A a \in 1..Len(run.acq_list) :
            PositionsOf("print_running", a) # {} =>
                /\ Cardinality(PositionsOf("write_metadata", a)) = 1
                /\ \A m \in PositionsOf("write_metadata", a) :
                      /\ \E j \in PositionsOf("sig_move_absolute_and_wait_until_done", a) : j < m
                      /\ \A v \in {"filter", "zoom", "laser", "intensity"} :
                            \E j \in PositionsOf("sig_state_request_and_wait_until_done", a) :
                                log[j].v = v /\ j < m
                      /\ \A j \in PositionsOf("start_tasks", a) : m < j

\* a run of two acquisitions has returned, its metadata written and planes captured
C10_Witness ==
    /\ Returned
    /\ run.mode = "run_acquisition_list"
    /\ ~run.stopped
    /\ Len(run.acq_list) = 2
    /\ \A a \in 1..2 :
          /\ PositionsOf("write_metadata", a) # {}
          /\ Cardinality(PositionsOf("start_tasks", a)) = 2

(* ------------------- claims: requests and shutters -------------------- *)
\* the positions of the requests for `key` sent with sig_state_request
RequestsFor(key) == {j \in DOMAIN log : log[j].e = "sig_state_request" /\ log[j].v = key}
Last(S) == CHOOSE j \in S : \A k \in S : k <= j

\* C11: for all values a, b of etl_l_amplitude and etl_r_amplitude before
\* visual_mode is entered, both amplitudes are 0 while its loop runs, and once
\* the mode has been stopped (at the first yield or a later one) and has
\* returned, the last amplitude requests sent carry a and b and the amplitudes
\* in effect are a and b again.
C11_EtlRoundTrip ==
    run.mode = "visual_mode" =>
        /\ (stack # <<>> /\ Top.pc \in {"poll", "yield"}) =>
              etl_l_amplitude = 0 /\ etl_r_amplitude = 0
        /\ Returned =>
              /\ log[Last(RequestsFor("etl_l_amplitude"))].val = run.old_l
              /\ log[Last(RequestsFor("etl_r_amplitude"))].val = run.old_r
              /\ etl_l_amplitude = run.old_l
              /\ etl_r_amplitude = run.old_r

\* visual mode, entered with amplitudes 2 and 1, was stopped at its first yield
C11_Witness ==
    /\ Returned
    /\ run.mode = "visual_mode"
    /\ run.stopped
    /\ run.old_l = 2
    /\ run.old_r = 1
    /\ Cardinality(Positions("start_tasks")) = 1

\* C12: what open_shutters leaves depends on the shutter configuration only,
\* not on the positions the shutters had: 'Left' leaves left open and right
\* closed, 'Right' leaves right open and left closed, 'Both' and every other
\* value leave both open, and shutterstate is True in every case.
C12_OpenShuttersByConfig ==
    \A j \in Positions("open_shutters") :
        /\ log[j].hw.ss
        /\ log[j].hw.left = (log[j].v # "Right")
        /\ log[j].hw.right = (log[j].v # "Left")

\* open_shutters ran with configuration 'Left' while the right shutter was open
C12_Witness ==
    \E j \in Positions("open_shutters") :
        /\ j > 1
        /\ log[j].v = "Left"
        /\ log[j - 1].hw.right
        /\ ~log[j].hw.right

\* C13: close_shutters leaves both shutters closed and shutterstate False
\* from every combination of shutter positions and every shutter
\* configuration, and a second call changes nothing.
C13_CloseShuttersIdempotent ==
    /\ \A j \in Positions("close_shutters") :
          ~log[j].hw.left /\ ~log[j].hw.right /\ ~log[j].hw.ss
    /\ LET once == close_shutters(shutter_left, shutter_right) IN
          /\ once = [left |-> FALSE, right |-> FALSE, ss |-> FALSE]
          /\ close_shutters(once.left, once.right) = once

\* close_shutters ran while only the right shutter was open
C13_Witness ==
    \E j \in Positions("close_shutters") :
        /\ j > 1
        /\ ~log[j - 1].hw.left
        /\ log[j - 1].hw.right
        /\ shutterconfig = "Right"

\* the mode names set_state knows
KnownStates == {"live", "run_selected_acquisition", "run_acquisition_list", "idle",
                "lightsheet_alignment_mode", "visual_mode"}
\* this step takes a request, between runs or inside processEvents()
TakesRequest == (run.mode = "none" /\ run'.mode # "none") \/ run'.requests = run.requests + 1

\* C14: handling a mode request that names none of live,
\* run_selected_acquisition, run_acquisition_list, idle,
\* lightsheet_alignment_mode and visual_mode changes neither the engine state
\* nor the stop flag nor the shutters nor shutterstate, and emits no signal.
C14_UnknownModeNoOp ==
    [][(TakesRequest /\ run'.last \in StopOrOtherStates \ KnownStates) =>
           (UNCHANGED <<state, stopflag, shutter_left, shutter_right, shutterstate>>
            /\ log' = log)]_vars

\* an unknown mode name was handled inside processEvents() of a preview loop
\* whose shutters are open
C14_Witness ==
    /\ AtYield
    /\ run.last \in StopOrOtherStates \ KnownStates
    /\ run.requests = 1
    /\ shutter_left
    /\ shutterstate

\* the item is one that state_request_handler answers with a signal
EmitsSignal(item) == item.key \in (SetterKeys \ {"shutterconfig", "state"}) \cup ForwardedKeys
IsListed(item) == item.key \in SetterKeys \cup ForwardedKeys
AllUnlisted(request) == \A j \in DOMAIN request : ~IsListed(request[j])

\* C15: a key of a request that is in neither key list of
\* state_request_handler changes no state and emits no signal, and the other
\* keys of the request are still handled, each once and in the order of the
\* request.
C15_UnlistedKeyIgnored ==
    /\ [](run.mode = "request" =>
            LET emitted == SelectSeq(run.request, EmitsSignal) IN
            /\ Len(log) = Len(emitted)
            /\ \A j \in DOMAIN log :
                  /\ log[j].e = "sig_state_request"
                  /\ log[j].v = emitted[j].key
                  /\ log[j].val = emitted[j].value
            /\ \A j \in DOMAIN run.request :
                  run.request[j].key = "shutterconfig" =>
                      shutterconfig = run.request[j].value)
    /\ [][(run'.mode = "request" /\ run.mode = "none" /\ AllUnlisted(run'.request)) =>
              (UNCHANGED <<state, stopflag, shutters, shutterconfig, etl, open_tasks>>
               /\ log' = log)]_vars

\* a request of an unlisted key followed by an ETL amplitude has been handled
C15_Witness ==
    /\ run.mode = "request"
    /\ Len(run.request) = 2
    /\ run.request[1].key = "selected_row"
    /\ run.request[2].key = "etl_l_amplitude"
    /\ run.request[2].value = 2
    /\ etl_l_amplitude = 2
    /\ Len(log) = 1

(* ---------------------- claims: order and blocking -------------------- *)
\* the positions of the events `e` of plane i of acquisition a
PositionsAt(e, a, i) == {j \in DOMAIN log : log[j].e = e /\ log[j].a = a /\ log[j].i = i}
\* C16: in an acquisition run the progress records come in increasing
\* lexicographic order of (current_acq, current_image_in_acq), the waveform
\* cycles come in list order and plane order, and no waveform cycle of an
\* acquisition starts before the close step of the one before it has ended.
C16_ListAndPlaneOrder ==
    run.mode \in AcquisitionModes =>
        /\ \A j \in DOMAIN progress : \A k \in DOMAIN progress :
              j < k =>
                 \/ progress[j].current_acq < progress[k].current_acq
                 \/ /\ progress[j].current_acq = progress[k].current_acq
                    /\ progress[j].current_image_in_acq < progress[k].current_image_in_acq
        /\ \A j \in Positions("start_tasks") : \A k \in Positions("start_tasks") :
              j < k =>
                 \/ log[j].a < log[k].a
                 \/ log[j].a = log[k].a /\ log[j].i < log[k].i
        /\ \A j \in Positions("start_tasks") :
              log[j].a > 1 =>
                 \E k \in PositionsOf("close_acquisition_end", log[j].a - 1) : k < j

\* a list of two acquisitions of two planes each has been run to its end
C16_Witness ==
    /\ Returned
    /\ run.mode = "run_acquisition_list"
    /\ ~run.stopped
    /\ Len(progress) = 4
    /\ progress[2].current_acq = 0
    /\ progress[3].current_acq = 1

\* C17: for each acquisition, before its shutters are opened and before any
\* of its waveform cycles starts, the move to its start point and the filter,
\* zoom, laser and intensity requests have been sent in this order with the
\* signals that wait for the acknowledgement, each after the one before it had
\* returned.
C17_PreparationAcknowledged ==
    run.mode \in AcquisitionModes =>
        \A a \in 1..Len(run.acq_list) :
            LET started == PositionsOf("start_tasks", a) \cup PositionsOf("open_shutters", a)
                awaited == PositionsOf("sig_state_request_and_wait_until_done", a)
            IN  started # {} =>
                \E m \in PositionsOf("sig_move_absolute_and_wait_until_done", a) :
                \E f \in awaited : \E z \in awaited : \E l \in awaited : \E n \in awaited :
                    /\ log[f].v = "filter" /\ log[z].v = "zoom"
                    /\ log[l].v = "laser" /\ log[n].v = "intensity"
                    /\ m < f /\ f < z /\ z < l /\ l < n
                    /\ \A j \in started : n < j /\ ~log[j].hw.moving
                    /\ \A k \in m..n :
                          log[k].e \notin {"sig_state_request", "sig_move_absolute",
                                           "sig_move_relative"}

\* the selected acquisition, of two planes, has been run to its end
C17_Witness ==
    /\ Returned
    /\ run.mode = "run_selected_acquisition"
    /\ ~run.stopped
    /\ Cardinality(PositionsOf("start_tasks", 1)) = 2
    /\ Cardinality(PositionsOf("open_shutters", 1)) = 1

\* C18: for every plane of an acquisition whose progress record has been
\* emitted, the waveform cycle (start, run, stop) came first, then the signal
\* to append the frame, then the z-step sent with the signal that waits for the
\* acknowledgement, then the progress record; the waveform cycle of the next
\* plane starts after that z-step has been acknowledged; and every captured
\* plane has got its progress record when the run has returned.
C18_PlaneStepOrder ==
    run.mode \in AcquisitionModes =>
        /\ \A p \in Positions("sig_progress") :
              \E s \in PositionsAt("start_tasks", log[p].a, log[p].i) :
              \E r \in PositionsAt("run_tasks", log[p].a, log[p].i) :
              \E t \in PositionsAt("stop_tasks", log[p].a, log[p].i) :
              \E c \in PositionsAt("sig_add_images_to_image_series", log[p].a, log[p].i) :
              \E z \in PositionsAt("sig_move_relative_and_wait_until_done", log[p].a, log[p].i) :
                  s < r /\ r < t /\ t < c /\ c < z /\ z < p
        /\ \A j \in Positions("start_tasks") :
              /\ ~log[j].hw.moving
              /\ log[j].i > 0 =>
                    \E z \in PositionsAt("sig_move_relative_and_wait_until_done",
                                         log[j].a, log[j].i - 1) : z < j
        /\ Returned =>
              \A c \in Positions("sig_add_images_to_image_series") :
                  \E p \in PositionsAt("sig_progress", log[c].a, log[c].i) : c < p

\* a run was stopped at the yield of a plane and has captured a plane after
\* another one
C18_Witness ==
    /\ Returned
    /\ run.mode = "run_acquisition_list"
    /\ run.stopped
    /\ run.stop_k = 2
    /\ Len(progress) = 2

\* C19: in an acquisition-list run that was not stopped, sig_finished of
\* close_acquisition_list is emitted only after the motion worker has
\* acknowledged the move to the start point of the list.
C19_ListStartMoveBlocking ==
    (run.mode \in AcquisitionModes /\ ~run.stopped) =>
        \A j \in Positions("sig_finished") :
            log[j].v = "close_acquisition_list" => ~log[j].hw.moving

\* C20: the stop flag is False whenever the loop of an imaging mode polls it
\* and no stop request has been handled since the mode was entered, whatever
\* stop requests were handled before; the alignment loop has run its body; and
\* the flag goes from False to True only in a step that handles an 'idle'
\* request.
C20_StopFlagClearedOnEntry ==
    /\ []((stack # <<>> /\ Top.pc \in {"poll", "plane"} /\ ~run.stopped) => ~stopflag)
    /\ []((run.mode = "lightsheet_alignment_mode" /\ stack = <<>>) =>
             Positions("shutter_left.open") # {})
    /\ [][(~stopflag /\ stopflag') => (TakesRequest /\ run'.last = "idle")]_vars

\* set_state has entered visual mode with the stop flag still set by an
\* earlier stop request; visual_mode() is about to run
C20_Witness ==
    /\ At("visual_mode", "visual_mode")
    /\ state = "visual_mode"
    /\ stopflag

\* the position in the record of the first stop() of the run
FirstStop ==
    CHOOSE j \in {k \in Positions("sig_finished") : log[k].v = "stop"} :
        \A k \in Positions("sig_finished") : log[k].v = "stop" => j <= k

\* C21: a stop request handled at a yield point takes effect at the next poll
\* of the stop flag: the waveform cycle that ran before the yield is complete,
\* the blocking z-step of that plane is still made and awaited, and after the
\* stop no further waveform cycle is started and no further frame is appended
\* in the mode that was running.
C21_StopAtNextPoll ==
    (run.mode \in ImagingModes /\ run.stopped) =>
        /\ \A j \in DOMAIN log :
              j > FirstStop => log[j].e \notin {"start_tasks", "sig_add_images_to_image_series"}
        /\ \E j \in Positions("stop_tasks") :
              /\ j < FirstStop
              /\ \A k \in Positions("start_tasks") : k < j
        /\ (run.mode \in AcquisitionModes /\ ~AtYield) =>
              \E j \in Positions("sig_move_relative_and_wait_until_done") :
                 j > FirstStop /\ ~log[j].hw.moving

\* a list run was stopped in processEvents() of the first of two planes and
\* has returned
C21_Witness ==
    /\ Returned
    /\ run.mode = "run_acquisition_list"
    /\ run.stopped
    /\ run.stop_k = 1
    /\ run.acq_list[run.stop_a].planes = 2
    /\ Len(progress) = PlanesBefore(run.acq_list, run.stop_a - 1) + 1

\* C22: lightsheet_alignment_mode repeats its cycle until a stop request is
\* handled and leaves the loop only because of a stop request; it then closes
\* both shutters with close_shutters() and emits the completion signal; it
\* issues no stage move and writes no metadata.
C22_AlignmentUntilStop ==
    (run.mode = "lightsheet_alignment_mode" /\ stack = <<>>) =>
        /\ run.stopped
        /\ ~run.raised
        /\ \E j \in Positions("close_shutters") :
              \E k \in Positions("sig_finished") : j < k /\ log[k].v # "stop"
        /\ \A j \in DOMAIN log :
              log[j].e \notin {"sig_move_relative", "sig_move_relative_and_wait_until_done",
                               "sig_move_absolute", "sig_move_absolute_and_wait_until_done",
                               "write_metadata"}

\* the run captured every plane of every member of its list and emitted the
\* completion signal of close_acquisition_list
CapturedAll ==
    /\ Returned
    /\ \E j \in Positions("sig_finished") : log[j].v = "close_acquisition_list"
    /\ Len(progress) = list_image_count(run.acq_list)
    /\ Cardinality(Positions("sig_add_images_to_image_series")) = list_image_count(run.acq_list)
    /\ \A a \in DOMAIN run.acq_list :
          Cardinality(PositionsOf("start_tasks", a)) = get_image_count(run.acq_list[a])

\* C23: when every blocking request is acknowledged and no stop request is
\* issued, an acquisition run over a finite list eventually emits the completion
\* signal, having captured every plane of every acquisition.
C23_ListRunTerminates ==
    (run.mode \in AcquisitionModes /\ stack # <<>>) ~> (run.stopped \/ CapturedAll)

\* an unstopped run of a list of two acquisitions with planes has ended
C23_Witness ==
    /\ CapturedAll
    /\ run.mode = "run_acquisition_list"
    /\ ~run.stopped
    /\ Len(run.acq_list) = 2
    /\ \A a \in DOMAIN run.acq_list : run.acq_list[a].planes > 0

\* C26: a 'run_selected_acquisition' request executes exactly one acquisition,
\* the one at index selected_row of the configured list: total_acqs is 1 and
\* total_image_count is that acquisition's plane count in every progress record,
\* and no other member of the configured list is prepared or captured; a
\* 'run_acquisition_list' request executes every member of the configured list.
C26_SelectedRowOnly ==
    /\ (run.mode = "run_selected_acquisition" /\ run.request[2] > 0) =>
          LET cfg == run.request[1]
              row == run.request[2]
          IN  /\ run.acq_list = << cfg[row] >>
              /\ stack # <<>> => Top.acq_list = << cfg[row] >>
              /\ total_acquisition_count = 1
              /\ total_image_count = get_image_count(cfg[row])
              /\ \A j \in DOMAIN progress :
                    /\ progress[j].total_acqs = 1
                    /\ progress[j].total_image_count = get_image_count(cfg[row])
                    /\ progress[j].images_in_acq = get_image_count(cfg[row])
              /\ Cardinality(Positions("print_running")) <= 1
              /\ \A j \in DOMAIN log : log[j].a <= 1
              /\ Cardinality(Positions("start_tasks")) <= get_image_count(cfg[row])
              /\ (Returned /\ ~run.stopped) =>
                    /\ Cardinality(Positions("print_running")) = 1
                    /\ Cardinality(Positions("start_tasks")) = get_image_count(cfg[row])
    /\ (run.mode = "run_acquisition_list" /\ Returned /\ ~run.stopped) =>
          /\ run.acq_list = run.request[1]
          /\ total_acquisition_count = Len(run.request[1])
          /\ \A a \in DOMAIN run.request[1] :
                /\ Cardinality(PositionsOf("print_running", a)) = 1
                /\ Cardinality(PositionsOf("start_tasks", a)) = get_image_count(run.request[1][a])

\* the second row of a list whose rows differ was selected, and its run has
\* ended without a stop
C26_Witness ==
    /\ Returned
    /\ run.mode = "run_selected_acquisition"
    /\ ~run.stopped
    /\ run.request[2] = 2
    /\ run.request[1][1].planes = 1
    /\ run.request[1][2].planes = 2
    /\ Len(progress) = 2

\* the functions that hold an imaging-mode loop
ModeFunctions == {"live", "start", "lightsheet_alignment_mode", "visual_mode"}

\* C24: the operating modes are mutually exclusive: at no time are two
\* imaging-mode loops active at once, including when a request for another
\* imaging mode is handled at the yield point of a loop that is still running.
C24_ModesMutuallyExclusive ==
    Cardinality({k \in DOMAIN stack : stack[k].fn \in ModeFunctions}) <= 1

\* C25: after an acquisition run has been aborted by a stop request and has
\* returned, no shutter is open, no stage move issued by the run is still in
\* progress, and every laser line the run enabled has been disabled again.
C25_AbortLeavesHardwareSafe ==
    (Returned /\ run.mode \in AcquisitionModes /\ run.stopped) =>
        /\ ~shutter_left /\ ~shutter_right
        /\ ~moving
        /\ \A j \in Positions("laserenabler.enable") :
              \E k \in DOMAIN log : k > j /\ log[k].e = "laserenabler.disable"

\* the keys of the lines of a file that open a section: the lines that follow
\* an empty line
RECURSIVE SectionHeaders(_, _)
SectionHeaders(lines, n) ==
    IF n = 0 THEN <<>>
    ELSE IF n > 1 /\ lines[n - 1] = <<>> /\ lines[n] # <<>>
         THEN Append(SectionHeaders(lines, n - 1), lines[n][2])
         ELSE SectionHeaders(lines, n - 1)

\* C27: the metadata record written for an acquisition consists of
\* '[key] value' lines grouped under the section headers CFG, POSITION,
\* ETL PARAMETERS, GALVO PARAMETERS and CAMERA PARAMETERS in that order, with
\* one empty line between sections, and it contains the line '[z_stepsize] v'
\* where v is the acquisition's z_step.
C27_MetadataLayout ==
    run.mode = "write_metadata" =>
        LET lines == log[1].val
            acq == run.request[1]
        IN  /\ \A n \in DOMAIN lines :
                  \/ lines[n] = <<>>
                  \/ Len(lines[n]) = 4 /\ lines[n][1] = "[" /\ lines[n][3] = "] "
            /\ \A n \in DOMAIN lines :
                  (lines[n] = <<>>) => (1 < n /\ n < Len(lines) /\ lines[n + 1] # <<>>)
            /\ SectionHeaders(lines, Len(lines)) =
                  << "CFG", "POSITION", "ETL PARAMETERS", "GALVO PARAMETERS", "CAMERA PARAMETERS" >>
            /\ \E n \in DOMAIN lines : lines[n] = << "[", "z_stepsize", "] ", acq.z_step >>

\* the calls made to the waveform generator
WaveformCalls == {"create_tasks", "write_waveforms_to_tasks", "start_tasks", "run_tasks",
                  "stop_tasks", "close_tasks"}
\* the waveform generator calls made for acquisition a, in order
RECURSIVE CallsOf(_, _)
CallsOf(a, n) ==
    IF n = 0 THEN <<>>
    ELSE IF log[n].e \in WaveformCalls /\ log[n].a = a
         THEN Append(CallsOf(a, n - 1), log[n].e)
         ELSE CallsOf(a, n - 1)
\* p times start, run, stop
RECURSIVE Cycles(_)
Cycles(p) ==
    IF p = 0 THEN <<>> ELSE Cycles(p - 1) \o << "start_tasks", "run_tasks", "stop_tasks" >>

\* C28: in every mode and for every timing of stop requests the calls made to
\* the waveform generator follow its lifecycle: create_tasks is never called
\* while tasks are open; write, start, run and stop are called on open tasks
\* only, in the order start, run, stop; close_tasks is called on open, stopped
\* tasks only; an unstopped acquisition of p planes makes exactly create, write,
\* p times (start, run, stop), close.
C28_WaveformLifecycle ==
    /\ \A j \in Positions("create_tasks") : log[j].hw.tasks = 1
    /\ \A j \in DOMAIN log :
          log[j].e \in {"write_waveforms_to_tasks", "start_tasks", "run_tasks", "stop_tasks"} =>
              log[j].hw.tasks >= 1
    /\ \A j \in Positions("start_tasks") :
          /\ j + 2 <= Len(log)
          /\ log[j + 1].e = "run_tasks"
          /\ log[j + 2].e = "stop_tasks"
    /\ \A j \in Positions("close_tasks") :
          /\ j > 1
          /\ log[j - 1].hw.tasks >= 1
          /\ log[j].hw.tasks = 0
          /\ \A k \in Positions("start_tasks") : k < j => k + 2 < j
    /\ (run.mode \in AcquisitionModes /\ ~run.stopped /\ Returned) =>
          \A a \in DOMAIN run.acq_list :
              CallsOf(a, Len(log)) =
                 << "create_tasks", "write_waveforms_to_tasks" >>
                 \o Cycles(get_image_count(run.acq_list[a]))
                 \o << "close_tasks" >>

\* the step takes a request that holds the key 'shutterconfig' and no other
TakesShutterconfig ==
    /\ TakesRequest
    /\ \/ run'.last = "shutterconfig"
       \/ /\ run'.mode = "request"
          /\ \A k \in DOMAIN run'.request : run'.request[k].key = "shutterconfig"

\* C29: handling a 'shutterconfig' request changes only the shutterconfig
\* value: the positions of both shutters, shutterstate, the engine state and
\* the stop flag are unchanged and nothing is emitted, and the shutters take a
\* new position only in a step that calls open_shutters or close_shutters.
C29_ShutterconfigOnly ==
    /\ [][TakesShutterconfig =>
             (UNCHANGED <<shutter_left, shutter_right, shutterstate, state, stopflag>>
              /\ log' = log)]_vars
    /\ [][(shutter_left' # shutter_left \/ shutter_right' # shutter_right) =>
             \E j \in DOMAIN log' :
                j > Len(log) /\ log'[j].e \in {"open_shutters", "close_shutters"}]_vars

\* the configuration became 'Left' inside processEvents() of a preview loop:
\* the right shutter, opened under the configuration before, is still open
C29_Witness ==
    /\ AtYield
    /\ run.last = "shutterconfig"
    /\ shutterconfig = "Left"
    /\ shutter_left /\ shutter_right /\ shutterstate

\* C30: in every reachable state the shutterstate flag agrees with the
\* hardware: whenever shutterstate is False both shutters are closed, between
\* the handlers' steps and in the states their calls and signals are made in,
\* lightsheet_alignment_mode included.
C30_ShutterstateAgrees ==
    /\ ~shutterstate => (~shutter_left /\ ~shutter_right)
    /\ \A j \in DOMAIN log :
          ~log[j].hw.ss => (~log[j].hw.left /\ ~log[j].hw.right)

\* C31: each run of an imaging mode emits the completion signal sig_finished
\* exactly once, whether the run ends by itself or is ended by a stop request.
C31_FinishedExactlyOnce ==
    (Returned /\ run.mode \in ImagingModes) =>
        Cardinality(Positions("sig_finished")) = 1

\* C32: for every acquisition whose sig_prepare_image_series was sent,
\* sig_end_image_series is sent exactly once before the next
\* sig_prepare_image_series or the end of the run, whether the acquisition
\* completed or was stopped early, and the acquisition counter is incremented
\* by exactly one.
C32_EndOfSeriesOnce ==
    run.mode \in AcquisitionModes =>
        /\ \A a \in DOMAIN run.acq_list :
              LET prepared == PositionsOf("sig_prepare_image_series", a)
                  ended == PositionsOf("sig_end_image_series", a)
              IN  /\ Cardinality(prepared) <= 1
                  /\ Cardinality(ended) <= Cardinality(prepared)
                  /\ \A j \in ended : \A k \in prepared : k < j
                  /\ \A j \in ended : \A k \in Positions("sig_prepare_image_series") :
                        log[k].a > a => j < k
                  /\ PositionsOf("close_acquisition_end", a) # {} => Cardinality(ended) = 1
        /\ acquisition_count = Cardinality(Positions("close_acquisition_end"))
        /\ \A j \in Positions("close_acquisition_end") : log[j].a = Cardinality({k \in Positions("close_acquisition_end") : k <= j})

====
